---- MODULE Spec2Model ----
(***************************************************************************)
(* Model of Isserlis.py: the enumeration of the partitions of a list into  *)
(* pairs (isserlis), its reduction to lag tallies for a stationary process *)
(* (isserlis_stationary), the labelling of symbolic tokens by integers     *)
(* (isserlis_stationary_analytical) and the tally of the result (counts).  *)
(*                                                                         *)
(* Python lists and tuples are TLA+ sequences: the Python index k is the   *)
(* TLA+ index k + 1.  The values held by a permutation are the Python      *)
(* values 0 .. n-1, and Index returns Python (0-based) positions.          *)
(***************************************************************************)
EXTENDS Integers, Sequences, FiniteSets, TLC

VARIABLES
    fn,               \* which function the caller runs (lines 132-139)
    tokens,           \* the argument of isserlis_stationary_analytical (line 70)
    set_,             \* the argument of isserlis (line 35; set_to_numbers of line 80)
    correspondances,  \* the dictionary of line 79
    p,                \* the permutation the for loop of line 54 is at
    pc,               \* where the generator of isserlis is
    el,               \* the last list yielded on line 56 (el of line 66)
    out,              \* the lists yielded on line 56, when the caller keeps them
    accepted,         \* the permutations for which line 55 held, one per list of out
    shapes,           \* the tuples yielded on line 68
    dic               \* the result of counts (line 139)

vars == <<fn, tokens, set_, correspondances, p, pc, el, out, accepted, shapes, dic>>

----------------------------------------------------------------------------
(* Bounds of the model *)

\* longest integer list given to isserlis / isserlis_stationary
MaxLen == 6
\* the integer lists hold values of 1 .. MaxVal
MaxVal == 2
\* longest token list given to isserlis_stationary_analytical
MaxTokLen == 4
\* number of different tokens the token lists draw from
NumTokens == 4

----------------------------------------------------------------------------
(* Plain helpers for Python built-ins *)

Range(s) == {s[k] : k \in DOMAIN s}

Abs(x) == IF x < 0 THEN -x ELSE x

\* max(l) of a non-empty list
Max(l) == CHOOSE m \in Range(l) : \A x \in Range(l) : x <= m

\* l.count(x)
Count(l, x) == Cardinality({k \in DOMAIN l : l[k] = x})

\* the marker for "x not in tuple", where t.index(x) raises ValueError
NotFound == -1

\* t.index(x): the 0-based position of the first x in t
Index(t, x) ==
    IF \E k \in DOMAIN t : t[k] = x
    THEN (CHOOSE k \in DOMAIN t : t[k] = x /\ \A m \in 1..(k-1) : t[m] # x) - 1
    ELSE NotFound

\* all lists over S of length 0 .. n
SeqsUpTo(S, n) == UNION {[1..k -> S] : k \in 0..n}

----------------------------------------------------------------------------
(* itertools.permutations(range(n)): the tuples in lexicographic order *)

\* the first permutation, (0, 1, ..., n-1); the empty tuple when n = 0
FirstPerm(n) == [k \in 1..n |-> k - 1]

\* TRUE when t is the last permutation (n-1, ..., 1, 0): the iterator is exhausted
IsLastPerm(t) == \A k \in 1..(Len(t) - 1) : t[k] > t[k+1]

\* the lexicographic successor of t (t is not the last permutation)
NextPerm(t) ==
    LET n == Len(t)
        k == CHOOSE a \in 1..(n-1) : t[a] < t[a+1] /\ \A b \in (a+1)..(n-1) : t[b] > t[b+1]
        l == CHOOSE a \in (k+1)..n : t[a] > t[k] /\ \A b \in (a+1)..n : t[b] < t[k]
        sw == [t EXCEPT ![k] = t[l], ![l] = t[k]]
    IN  [m \in 1..n |-> IF m <= k THEN sw[m] ELSE sw[n + k + 1 - m]]

----------------------------------------------------------------------------
(* isserlis: the filter test and the yielded rearrangement *)

RECURSIVE testLoop_NoCursor(_, _, _)
\* the loop of test without the comparison of temp with the cursor i
testLoop_NoCursor(n_els, t, j) ==
    IF j >= n_els THEN "True"
    ELSE LET temp == Index(t, j)
             partner == Index(t, j + 1) IN
         IF temp = NotFound \/ partner = NotFound THEN "ValueError"
         ELSE IF temp > partner THEN "False"
         ELSE testLoop_NoCursor(n_els, t, j + 2)

\* test as it would be with "if temp > t.index(j+1)" alone on line 49
test_NoCursor(n_els, t) ==
    IF Index(t, 0) = NotFound THEN "ValueError" ELSE testLoop_NoCursor(n_els, t, 0)

RECURSIVE testLoop_NoPartner(_, _, _, _)
\* the loop of test without the comparison of temp with the position of j+1
testLoop_NoPartner(n_els, t, j, i) ==
    IF j >= n_els THEN "True"
    ELSE LET temp == Index(t, j) IN
         IF temp = NotFound THEN "ValueError"
         ELSE IF temp < i THEN "False"
         ELSE IF Index(t, j + 1) = NotFound THEN "ValueError"
         ELSE testLoop_NoPartner(n_els, t, j + 2, temp)

\* test as it would be with "if temp < i" alone on line 49
test_NoPartner(n_els, t) ==
    LET i == Index(t, 0) IN
    IF i = NotFound THEN "ValueError" ELSE testLoop_NoPartner(n_els, t, 0, i)

RECURSIVE testLoop(_, _, _, _)
\* the body of the for loop of test, at pair-index j with cursor i
testLoop(n_els, t, j, i) ==
    IF j >= n_els THEN "True"
    ELSE LET temp == Index(t, j) IN
         IF temp = NotFound THEN "ValueError"
         ELSE IF temp < i THEN "False"
         ELSE LET partner == Index(t, j + 1) IN
              IF partner = NotFound THEN "ValueError"
              ELSE IF temp > partner THEN "False"
              ELSE testLoop(n_els, t, j + 2, temp)

\* test as it would be with range(0, n_els - 1, 2) on line 47
test_ShortRange(n_els, t) ==
    LET i == Index(t, 0) IN
    IF i = NotFound THEN "ValueError" ELSE testLoop(n_els - 1, t, 0, i)

\* test(n_els, t): "True", "False", or "ValueError" when an index lookup fails
test(n_els, t) ==
    LET i == Index(t, 0) IN
    IF i = NotFound THEN "ValueError" ELSE testLoop(n_els, t, 0, i)

\* the rearrangement as it would be with p.index(i - i % 2) on line 56
Rearranged_PairHead(s, t) == [k \in 1..Len(s) |-> s[Index(t, (k - 1) - ((k - 1) % 2)) + 1]]

\* [set_[p.index(i)] for i in range(n_elements)]
Rearranged(s, t) == [k \in 1..Len(s) |-> s[Index(t, k - 1) + 1]]

----------------------------------------------------------------------------
(* isserlis_stationary: lags and shape of one partition *)

\* the lags as they would be without abs on line 67
Lags_Signed(e) == [m \in 1..(Len(e) \div 2) |-> e[2*m] - e[2*m - 1]]

\* l = [abs(el[j+1]-el[j]) for j in range(0, n_elements, 2)], for el of even length
Lags(e) == [m \in 1..(Len(e) \div 2) |-> Abs(e[2*m] - e[2*m - 1])]

\* the shape as it would be with range(max(l)) on line 68
ShapeOfLags_ShortRange(l) == [k \in 1..Max(l) |-> Count(l, k - 1)]

\* tuple([l.count(i) for i in range(max(l)+1)]), for non-empty l
ShapeOfLags(l) == [k \in 1..(Max(l) + 1) |-> Count(l, k - 1)]

Shape(e) == ShapeOfLags(Lags(e))

\* the body of the loop of isserlis_stationary raises on el: el[j+1] is out of
\* range for an odd length, and max(l) of the empty list raises ValueError
StationaryRaises(e) == Len(e) % 2 = 1 \/ Len(e) = 0

----------------------------------------------------------------------------
(* isserlis_stationary_analytical and counts *)

\* the set of orders in which iterating over the set S can produce its elements
Orders(S) == {o \in [1..Cardinality(S) -> S] : Range(o) = S}

\* the label as it would be with 2*k-1 on line 79
Label_Product(k) == 2 * k - 1

\* the label as it would be with consecutive integers on line 79
Label_Linear(k) == k

\* the integer given to the token enumerate() numbers k
Label(k) == 2^k - 1

\* {el: 2**k-1 for k,el in enumerate(set_elements)}, set_elements iterated in order o
Correspondances(o) == [e \in Range(o) |-> Label(Index(o, e))]

\* [correspondances[el] for el in set_]
SetToNumbers(c, s) == [k \in 1..Len(s) |-> c[s[k]]]

\* counts(l): {j: l.count(j) for j in l}
counts(l) == [j \in Range(l) |-> Count(l, j)]

\* the tokens of the example
Tok == <<"t", "t+t_1", "t+t_2", "t+t_3", "t+t_4", "t+t_5">>

Tokens == {Tok[k] : k \in 1..NumTokens}

\* the list the script is run on
set_analytic == <<"t", "t", "t+t_1", "t+t_1", "t+t_2", "t+t_2", "t+t_3", "t+t_3">>

----------------------------------------------------------------------------
(* The program: one call, drained by its consumer *)

\* fn = "isserlis":            list(isserlis(set_)), the partitions kept in out
\* fn = "isserlis_stationary": list(isserlis_stationary(set_)), the shapes kept in shapes
\* fn = "analytical":          set_to_nbs, iss = isserlis_stationary_analytical(tokens)
\*                              followed by iss = counts(iss), as the script does
\* pc = "call": the function is not called yet; pc = "loop": the for loop over the
\* permutations is about to test p; "done": the generator is exhausted;
\* "error": an exception left the generator.

Fresh ==
    /\ correspondances = <<>>
    /\ el = <<>>
    /\ out = <<>>
    /\ accepted = <<>>
    /\ shapes = <<>>
    /\ dic = <<>>

InitList ==
    /\ fn \in {"isserlis", "isserlis_stationary"}
    /\ tokens = <<>>
    /\ set_ \in SeqsUpTo(1..MaxVal, MaxLen)
    /\ p = FirstPerm(Len(set_))
    /\ pc = "loop"
    /\ Fresh

InitAnalytical ==
    /\ fn = "analytical"
    /\ tokens \in SeqsUpTo(Tokens, MaxTokLen)
    /\ set_ = <<>>
    /\ p = <<>>
    /\ pc = "call"
    /\ Fresh

Init == InitList \/ InitAnalytical

\* the script itself, lines 130-139, run on set_analytic or on the list cut
\* short after any of its elements
InitDriver ==
    /\ fn = "analytical"
    /\ tokens \in {SubSeq(set_analytic, 1, k) : k \in 0..Len(set_analytic)}
    /\ set_ = <<>>
    /\ p = <<>>
    /\ pc = "call"
    /\ Fresh

\* isserlis_stationary_analytical: the set of the tokens is iterated in an order
\* the hash seed of the run decides
Analytical ==
    /\ pc = "call"
    /\ \E o \in Orders(Range(tokens)) :
          /\ correspondances' = Correspondances(o)
          /\ set_' = SetToNumbers(Correspondances(o), tokens)
    /\ p' = FirstPerm(Len(tokens))
    /\ pc' = "loop"
    /\ UNCHANGED <<fn, tokens, el, out, accepted, shapes, dic>>

\* the for loop of isserlis takes the next permutation, or ends; at the end the
\* script tallies the shapes it drained
Advance(drained) ==
    IF IsLastPerm(p)
    THEN /\ pc' = "done"
         /\ p' = p
         /\ dic' = IF fn = "analytical" THEN counts(drained) ELSE dic
    ELSE /\ pc' = "loop"
         /\ p' = NextPerm(p)
         /\ dic' = dic

\* test(n_elements, p) is False: nothing is yielded
StepReject ==
    /\ pc = "loop"
    /\ test(Len(set_), p) = "False"
    /\ Advance(shapes)
    /\ UNCHANGED <<fn, tokens, set_, correspondances, el, out, accepted, shapes>>

\* test(n_elements, p) is True: isserlis yields the rearranged list, and
\* isserlis_stationary yields its shape
StepYield ==
    /\ pc = "loop"
    /\ test(Len(set_), p) = "True"
    /\ fn # "isserlis" => ~StationaryRaises(Rearranged(set_, p))
    /\ el' = Rearranged(set_, p)
    /\ IF fn = "isserlis"
       THEN /\ out' = Append(out, Rearranged(set_, p))
            /\ accepted' = Append(accepted, p)
            /\ shapes' = shapes
       ELSE /\ shapes' = Append(shapes, Shape(Rearranged(set_, p)))
            /\ out' = out
            /\ accepted' = accepted
    /\ Advance(shapes')
    /\ UNCHANGED <<fn, tokens, set_, correspondances>>

\* an index lookup of test raises ValueError, or the body of the loop of
\* isserlis_stationary raises: the exception ends the call
StepRaise ==
    /\ pc = "loop"
    /\ \/ test(Len(set_), p) = "ValueError"
       \/ /\ test(Len(set_), p) = "True"
          /\ fn # "isserlis"
          /\ StationaryRaises(Rearranged(set_, p))
    /\ pc' = "error"
    /\ UNCHANGED <<fn, tokens, set_, correspondances, p, el, out, accepted, shapes, dic>>

Next == Analytical \/ StepReject \/ StepYield \/ StepRaise

Spec == Init /\ [][Next]_vars

SpecDriver == InitDriver /\ [][Next]_vars

----------------------------------------------------------------------------
(* Notions the claims are stated with *)

RECURSIVE DoubleFact(_)
\* k!! = k * (k-2) * ... * 1 for odd k
DoubleFact(k) == IF k <= 1 THEN 1 ELSE k * DoubleFact(k - 2)

RECURSIVE Matchings(_)
\* every partition of the set S of positions into unordered pairs
Matchings(S) ==
    IF S = {} THEN {{}}
    ELSE LET a == CHOOSE x \in S : \A y \in S : x <= y
         IN  UNION {{{{a, b}} \cup m : m \in Matchings(S \ {a, b})} : b \in S \ {a}}

\* the original positions (0-based) of the two elements in each pair-slot of the
\* list yielded for the permutation t
PairsOf(t) == {{Index(t, 2*j), Index(t, 2*j + 1)} : j \in 0..((Len(t) \div 2) - 1)}

RECURSIVE SumSeq(_)
SumSeq(s) == IF s = <<>> THEN 0 ELSE s[1] + SumSeq(Tail(s))

SameMultiset(a, b) ==
    /\ Len(a) = Len(b)
    /\ \A v \in Range(a) \cup Range(b) : Count(a, v) = Count(b, v)

\* q[2j] < q[2j+1] for every pair j, and q[0] < q[2] < ... < q[2n-2], where q[k]
\* is the position of the value k in t
Canonical(t) ==
    /\ \A j \in 0..((Len(t) \div 2) - 1) : Index(t, 2*j) < Index(t, 2*j + 1)
    /\ \A j \in 0..((Len(t) \div 2) - 2) : Index(t, 2*j) < Index(t, 2*j + 2)

EvenInput == Len(set_) >= 2 /\ Len(set_) % 2 = 0

Last(s) == s[Len(s)]

\* something was yielded: el holds the last partition
Yielded == Len(out) + Len(shapes) > 0

\* isserlis_stationary_analytical has returned and its generator is not started
JustLabelled == fn = "analytical" /\ pc = "loop" /\ p = FirstPerm(Len(set_)) /\ ~Yielded

\* the number of distinct tokens of s that occur before the first e
FirstOccurrenceRank(s, e) == Cardinality({s[m] : m \in 1..Index(s, e)})

----------------------------------------------------------------------------
(* The claims *)

\* C1: for every even-length list of length 2n >= 2, with or without repeated
\* values, isserlis yields exactly (2n-1)!! partitions, and the sets of pairs of
\* original positions of the yielded partitions are pairwise different and are
\* exactly the perfect matchings of the 2n positions; [1,1,2,2] gives
\* [1,1,2,2] once and [1,2,1,2] twice.
C1_EveryPairingOnce ==
    (fn = "isserlis" /\ pc = "done" /\ EvenInput) =>
        /\ Len(out) = DoubleFact(Len(set_) - 1)
        /\ Len(accepted) = Len(out)
        /\ \A i \in DOMAIN out :
              out[i] = [k \in 1..Len(set_) |-> set_[Index(accepted[i], k - 1) + 1]]
        /\ \A i, j \in DOMAIN accepted :
              i # j => PairsOf(accepted[i]) # PairsOf(accepted[j])
        /\ {PairsOf(accepted[i]) : i \in DOMAIN accepted} = Matchings(0..(Len(set_) - 1))
        /\ set_ = <<1, 1, 2, 2>> => out = << <<1, 1, 2, 2>>, <<1, 2, 1, 2>>, <<1, 2, 1, 2>> >>

C1_Witness ==
    /\ fn = "isserlis"
    /\ pc = "done"
    /\ set_ = <<1, 1, 2, 2, 1, 2>>
    /\ Len(out) = 15

\* C2: every partition isserlis yields has the length of the input and the same
\* multiset of symbols, each input position being used exactly once.  (Every
\* yielded list is the last of out, and el, in the state its yield leads to.)
C2_Rearrangement ==
    /\ Yielded => SameMultiset(el, set_)
    /\ out # <<>> =>
          /\ SameMultiset(Last(out), set_)
          /\ {Index(Last(accepted), k) : k \in 0..(Len(set_) - 1)} = 0..(Len(set_) - 1)

C2_Witness ==
    /\ Yielded
    /\ Len(set_) = 4
    /\ el # set_
    /\ Cardinality(Range(set_)) = 2

\* C3: for every even-length integer list of length 2n >= 2, every shape that
\* isserlis_stationary yields sums to n, and the shape of a partition has, for k
\* from 0 to the largest lag, the number of its pair-slots of lag k at index k.
\* (Every yielded shape is the last of shapes, and the shape of el, in the state
\* its yield leads to.)
C3_ShapeSumsToN ==
    (fn # "isserlis" /\ EvenInput /\ shapes # <<>>) =>
              LET s == Last(shapes)
                  slots == 1..(Len(el) \div 2)
                  lag(m) == Abs(el[2*m] - el[2*m - 1])
              IN  /\ SumSeq(s) = Len(set_) \div 2
                  /\ \E m \in slots : Len(s) = lag(m) + 1
                  /\ \A m \in slots : lag(m) < Len(s)
                  /\ \A k \in 0..(Len(s) - 1) :
                        s[k + 1] = Cardinality({m \in slots : lag(m) = k})

C3_Witness ==
    /\ fn = "isserlis_stationary"
    /\ Len(set_) = 6
    /\ shapes # <<>>
    /\ Last(shapes) = <<1, 2>>

\* C4: for every list of odd length, isserlis fails with an error before it
\* yields any partition.
C4_OddLengthFails ==
    (Len(set_) % 2 = 1) =>
        /\ pc \in {"loop", "error"}
        /\ pc = "loop" => test(Len(set_), p) = "ValueError"
        /\ out = <<>>
        /\ shapes = <<>>
        /\ el = <<>>

C4_Witness ==
    /\ pc = "error"
    /\ Len(set_) = 3
    /\ out = <<>>

\* C5: for the empty list, isserlis yields exactly one partition, the empty one,
\* and isserlis_stationary yields exactly one shape, the empty tuple, and no
\* error is raised.
C5_EmptyIsABaseCase ==
    (set_ = <<>> /\ pc \notin {"call", "loop"}) =>
        /\ pc = "done"
        /\ fn = "isserlis" => out = << <<>> >>
        /\ fn # "isserlis" => shapes = << <<>> >>

\* C6: the integers given to the m distinct tokens are 2^k - 1 for k = 0 .. m-1,
\* and their differences identify the pair: for tokens a # b and c # d,
\* |va - vb| = |vc - vd| implies {a,b} = {c,d}, and a difference is 0 only for a
\* token paired with itself.  (Stated where the call returns: the dictionary does
\* not change afterwards.)
C6_DifferencesIdentifyPairs ==
    JustLabelled =>
        LET T == DOMAIN correspondances
            v(a) == correspondances[a]
        IN  /\ T = Range(tokens)
            /\ {v(a) : a \in T} = {2^k - 1 : k \in 0..(Cardinality(T) - 1)}
            /\ \A a, b \in T : v(a) - v(b) = 0 => a = b
            /\ \A a, b, c, d \in T :
                  (a # b /\ c # d /\ Abs(v(a) - v(b)) = Abs(v(c) - v(d)))
                      => {a, b} = {c, d}

C6_Witness ==
    /\ JustLabelled
    /\ Cardinality(DOMAIN correspondances) = 4
    /\ correspondances["t+t_2"] = 7

\* C7: the distinct tokens get their integers in the order of their first
\* occurrence in the input: the k-th distinct token gets 2^k - 1, every
\* occurrence of a token maps to that integer, and ['t','t','t+t_1','t+t_1']
\* gives t -> 0, t+t_1 -> 1 and the mapped list [0,0,1,1].
C7_FirstOccurrenceOrder ==
    (fn = "analytical" /\ pc # "call") =>
        /\ \A e \in Range(tokens) :
              correspondances[e] = 2^FirstOccurrenceRank(tokens, e) - 1
        /\ \A k \in DOMAIN tokens : set_[k] = correspondances[tokens[k]]
        /\ tokens = <<"t", "t", "t+t_1", "t+t_1">> => set_ = <<0, 0, 1, 1>>

\* in each shape of the class: a pairs of lag 0, and among the other lags `twos'
\* taken twice, `ones' taken once and none taken more often
ShapeClass(a, twos, ones) ==
    {s \in DOMAIN dic :
        /\ s[1] = a
        /\ Cardinality({k \in 2..Len(s) : s[k] = 2}) = twos
        /\ Cardinality({k \in 2..Len(s) : s[k] = 1}) = ones
        /\ \A k \in 2..Len(s) : s[k] \in {0, 1, 2}}

\* the class has `size' shapes, each tallied `mult' times
ClassIs(a, twos, ones, size, mult) ==
    /\ Cardinality(ShapeClass(a, twos, ones)) = size
    /\ \A s \in ShapeClass(a, twos, ones) : dic[s] = mult

\* C8: for the list of the script, four tokens each twice, under every
\* assignment of the labels 0, 1, 3, 7 to the tokens, the tally of the shapes
\* holds 105 shapes in 17 distinct ones: 1 x the shape of four lag-0 pairs,
\* 2 x each of 6 shapes (two lag-0 pairs, one lag twice), 4 x each of 3 shapes
\* (two lags twice), 8 x each of 4 shapes (one lag-0 pair, three lags), 16 x
\* each of 3 shapes (four lags).
C8_ExpansionOfTheExample ==
    (pc = "done" /\ tokens = set_analytic) =>
        /\ Len(shapes) = 105
        /\ Cardinality(DOMAIN dic) = 17
        /\ SumSeq([k \in 1..Len(shapes) |-> 1]) = 105
        /\ \A s \in DOMAIN dic : dic[s] = Count(shapes, s)
        /\ ClassIs(4, 0, 0, 1, 1)
        /\ ClassIs(2, 1, 0, 6, 2)
        /\ ClassIs(0, 2, 0, 3, 4)
        /\ ClassIs(1, 0, 3, 4, 8)
        /\ ClassIs(0, 0, 4, 3, 16)

C8_Witness ==
    /\ pc = "done"
    /\ tokens = set_analytic
    /\ set_ = <<3, 3, 7, 7, 0, 0, 1, 1>>
    /\ Len(shapes) = 105

TwoTokensTwice == <<"t", "t", "t+t_1", "t+t_1">>

\* C9, as stated: on ['t','t','t+t_1','t+t_1'] the shape (1,1) is among the
\* shapes yielded.
C9_ShapeOneOneOccurs ==
    (fn = "analytical" /\ tokens = TwoTokensTwice /\ pc = "done") =>
        \E i \in DOMAIN shapes : shapes[i] = <<1, 1>>

\* C9, amended: on ['t','t','t+t_1','t+t_1'] three shapes are yielded, (2,) once
\* and (0,2) twice, each summing to 2; the shape (1,1) is not among them.
C9_ShapesOfTwoTokensTwice ==
    (fn = "analytical" /\ tokens = TwoTokensTwice /\ pc = "done") =>
        /\ shapes = << <<2>>, <<0, 2>>, <<0, 2>> >>
        /\ \A i \in DOMAIN shapes : SumSeq(shapes[i]) = 2
        /\ DOMAIN dic = {<<2>>, <<0, 2>>}
        /\ dic[<<2>>] = 1
        /\ dic[<<0, 2>>] = 2
        /\ \A i \in DOMAIN shapes : shapes[i] # <<1, 1>>

C9_Witness ==
    /\ fn = "analytical"
    /\ tokens = TwoTokensTwice
    /\ pc = "done"
    /\ set_ = <<1, 1, 0, 0>>
    /\ Len(shapes) = 3

\* C10: for an even length 2n >= 2, test accepts the permutation p exactly when
\* q[2j] < q[2j+1] for every pair j and q[0] < q[2] < ... < q[2n-2], q[k] being
\* the position of k in p; so in every yielded partition each pair lists the
\* element of the smaller original position first, the pairs come in increasing
\* order of the original position of their first element, and the first element
\* is sequence[0].
C10_TestIsCanonicalForm ==
    EvenInput =>
        /\ pc = "loop" => (test(Len(set_), p) = "True" <=> Canonical(p))
        /\ pc = "loop" => test(Len(set_), p) \in {"True", "False"}
        /\ Yielded => el[1] = set_[1]
        /\ accepted # <<>> =>
              /\ Canonical(Last(accepted))
              /\ Index(Last(accepted), 0) = 0
              /\ Last(out)[1] = set_[1]

C10_Witness ==
    /\ fn = "isserlis"
    /\ pc = "loop"
    /\ Len(set_) = 6
    /\ Len(accepted) = 7
    /\ accepted[7] = <<0, 2, 3, 1, 4, 5>>

====
